---- MODULE Spec2Model ----
(***************************************************************************)
(* Filmovi API (index.js): five Express handlers over one MySQL table,     *)
(* `filmovi`, reached through a mysql2 connection pool.                    *)
(*                                                                         *)
(* Spec     : the table and the handlers.  A handler's statement is one    *)
(*            atomic step of the storage engine (autocommit); POST and PUT *)
(*            take two steps (the write, then the re-read) and other       *)
(*            requests may run between them.                               *)
(* DeleteSpec : Spec, also recording the ids DELETE has answered for.      *)
(* FieldSpec  : one request at a time, bodies with every field and with    *)
(*            keys the handlers ignore (id, created_at).                   *)
(* PoolSpec : the pool of line 14-22 under more requests than connections. *)
(***************************************************************************)
EXTENDS Integers, Sequences, FiniteSets, TLC

\* ------------------------------------------------------------- bounds
\* Highest id the auto-increment column hands out before POST is refused.
MaxId == 2
\* Requests in flight beyond the connections of the pool.
MaxQueued == 2
\* POST/PUT handlers that may sit between their two statements at once.
MaxReqs == 2

\* ------------------------------------------------------------ values
\* JavaScript undefined (a key the JSON body does not carry).
Absent == "undefined"
\* JSON null.
Null == "null"
\* SQL NULL.
NULL == "NULL"

Titles == {"A", "B"}
Years == {"2010"}
Genres == {"X"}

\* A parsed JSON request body, read through its five keys of interest: each
\* of naslov, godina, zanr absent, null or a value, with or without the keys
\* id and created_at.
FieldBodies ==
  {b \in [naslov : Titles \cup {Absent, Null},
          godina : Years \cup {Absent, Null},
          zanr : Genres \cup {Absent, Null},
          id : {Absent, "9"},
          created_at : {Absent, "T"}] :
     (b.id = Absent) <=> (b.created_at = Absent)}

\* The bodies of the concurrent specification: a title at most.
Bodies ==
  [naslov : Titles \cup {Absent, Null},
   godina : {Absent},
   zanr : {Absent},
   id : {Absent},
   created_at : {Absent}]

\* req.body left undefined (no body was parsed): not an object, so reading
\* a key of it throws.  It is also the body of the handlers that read none.
NoBody == [body |-> Absent]

\* req.params.id: the path segment, a string of characters.
PathIds == {<<"1">>, <<"2">>, <<"3">>, <<"0", "1">>}

NoParam == <<>>

DigitValue(c) ==
  CASE c = "0" -> 0 [] c = "1" -> 1 [] c = "2" -> 2 [] c = "3" -> 3
    [] c = "4" -> 4 [] c = "5" -> 5 [] c = "6" -> 6 [] c = "7" -> 7
    [] c = "8" -> 8 [] c = "9" -> 9

DigitChar(d) ==
  CASE d = 0 -> "0" [] d = 1 -> "1" [] d = 2 -> "2" [] d = 3 -> "3"
    [] d = 4 -> "4" [] d = 5 -> "5" [] d = 6 -> "6" [] d = 7 -> "7"
    [] d = 8 -> "8" [] d = 9 -> "9"

\* The decimal text of a non-negative integer (String(n) in the driver).
RECURSIVE ToDigits(_)
ToDigits(n) ==
  IF n < 10 THEN <<DigitChar(n)>>
  ELSE Append(ToDigits(n \div 10), DigitChar(n % 10))

\* The number MySQL compares an INT column with when given a digit string.
RECURSIVE ToNum(_)
ToNum(s) ==
  IF s = <<>> THEN 0
  ELSE 10 * ToNum(SubSeq(s, 1, Len(s) - 1)) + DigitValue(s[Len(s)])

\* ---------------------------------------------------- bound parameters
\* What the driver's escape() makes of a JavaScript value.
SqlNull == [kind |-> "null", chars |-> <<>>]

EscapeString(v) ==
  IF v \in {Absent, Null} THEN SqlNull
  ELSE [kind |-> "string", chars |-> <<v>>]

EscapePath(p) == [kind |-> "string", chars |-> p]

EscapeNumber(n) == [kind |-> "number", chars |-> ToDigits(n)]

\* The value a column stores for a bound parameter.
ColValue(lit) == IF lit.kind = "null" THEN NULL ELSE lit.chars[1]

\* The number an id parameter stands for in `WHERE id = ?`.
IdValue(lit) == ToNum(lit.chars)

\* ------------------------------------------------------- SQL statements
SELECT_ALL == <<"SELECT * FROM filmovi">>
SELECT_BY_ID == <<"SELECT * FROM filmovi WHERE id = ?">>
INSERT_ROW == <<"INSERT INTO filmovi (naslov, godina, zanr) VALUES (?, ?, ?)">>
UPDATE_ROW ==
  <<"UPDATE filmovi SET naslov = COALESCE(?, naslov), godina = COALESCE(?, godina), zanr = COALESCE(?, zanr) WHERE id = ?">>
DELETE_ROW == <<"DELETE FROM filmovi WHERE id = ?">>

NoQuery == [text |-> <<>>, values |-> <<>>]

\* Mutant: the list sent with the by-id statement.
ListQueryById == [text |-> SELECT_BY_ID, values |-> <<EscapeNumber(1)>>]

\* pool.query(sql, values) of each handler.
ListQuery == [text |-> SELECT_ALL, values |-> <<>>]

\* Mutant: the path's id written into the statement.
GetQueryInline(p) ==
  [text |-> <<"SELECT * FROM filmovi WHERE id = '">> \o p \o <<"'">>,
   values |-> <<>>]

GetQuery(p) == [text |-> SELECT_BY_ID, values |-> <<EscapePath(p)>>]

\* Mutant: the year and the genre bound in the wrong order.
InsertQuerySwapped(body) ==
  [text |-> INSERT_ROW,
   values |-> <<EscapeString(body.naslov), EscapeString(body.zanr),
                EscapeString(body.godina)>>]

InsertQuery(body) ==
  [text |-> INSERT_ROW,
   values |-> <<EscapeString(body.naslov), EscapeString(body.godina),
                EscapeString(body.zanr)>>]

PostRereadQuery(insertId) ==
  [text |-> SELECT_BY_ID, values |-> <<EscapeNumber(insertId)>>]

UpdateQuery(p, body) ==
  [text |-> UPDATE_ROW,
   values |-> <<EscapeString(body.naslov), EscapeString(body.godina),
                EscapeString(body.zanr), EscapePath(p)>>]

PutRereadQuery(p) == [text |-> SELECT_BY_ID, values |-> <<EscapePath(p)>>]

DeleteQuery(p) == [text |-> DELETE_ROW, values |-> <<EscapePath(p)>>]

\* ------------------------------------------------------- storage engine
VARIABLES
  rows,      \* the table filmovi: a set of rows
  nextId,    \* the AUTO_INCREMENT counter of filmovi.id
  now,       \* the storage clock (CURRENT_TIMESTAMP), in inserts so far
  slot,      \* the POST/PUT handlers suspended between their statements
  last,      \* the statement that ran last, with the answer it led to
  created,   \* ids of the rows an INSERT added
  deleted,   \* ids of the rows a DELETE removed
  answered,  \* watched ids a DELETE has answered for, with 204 or with 404
  inUse,     \* pool: connections running a statement
  queue,     \* pool: statements waiting for a connection, oldest first
  run1,      \* requests whose first statement is running
  run2,      \* requests whose second statement is running
  tpc,       \* one request followed through the pool: where it is
  tstage,    \* ... the statement it is at
  tresp      \* ... the responses it has received

\* The pool and the requests going through it.
pool == <<inUse, queue, run1, run2, tpc, tstage, tresp>>

Ids(t) == {r.id : r \in t}

Matching(t, lit) == {r \in t : r.id = IdValue(lit)}

\* Mutant: the parameter assigned without COALESCE.
CoalesceOverwrite(lit, old) == ColValue(lit)

Coalesce(lit, old) == IF lit.kind = "null" THEN old ELSE ColValue(lit)

\* INSERT INTO filmovi (naslov, godina, zanr) VALUES (?, ?, ?) at time t.
InsertedRow(v, id, t) ==
  [id |-> id, naslov |-> ColValue(v[1]), godina |-> ColValue(v[2]),
   zanr |-> ColValue(v[3]), created_at |-> t]

\* UPDATE ... SET naslov = COALESCE(?, naslov), ... on one row.
UpdatedRow(r, v) ==
  [r EXCEPT !.naslov = Coalesce(v[1], r.naslov),
            !.godina = Coalesce(v[2], r.godina),
            !.zanr = Coalesce(v[3], r.zanr)]

\* Mutant: affectedRows counting only the rows the UPDATE changed.
UpdateChanged(t, v) ==
  Cardinality({r \in Matching(t, v[4]) : UpdatedRow(r, v) # r})

\* affectedRows of an UPDATE: the rows the WHERE clause matched (the driver
\* connects with FOUND_ROWS).
UpdateAffected(t, v) == Cardinality(Matching(t, v[4]))

\* The result of a statement: the table after it and what the driver returns.
\* A text the engine does not know is a syntax error.
Execute(t, q, id, time) ==
  CASE q.text = SELECT_ALL ->
         [ok |-> TRUE, rows |-> t, found |-> t, affectedRows |-> 0, insertId |-> 0]
    [] q.text = SELECT_BY_ID ->
         [ok |-> TRUE, rows |-> t, found |-> Matching(t, q.values[1]),
          affectedRows |-> 0, insertId |-> 0]
    [] q.text = INSERT_ROW ->
         [ok |-> TRUE, rows |-> t \cup {InsertedRow(q.values, id, time)},
          found |-> {}, affectedRows |-> 1, insertId |-> id]
    [] q.text = UPDATE_ROW ->
         [ok |-> TRUE,
          rows |-> {IF r \in Matching(t, q.values[4])
                      THEN UpdatedRow(r, q.values) ELSE r : r \in t},
          found |-> {}, affectedRows |-> UpdateAffected(t, q.values),
          insertId |-> 0]
    [] q.text = DELETE_ROW ->
         [ok |-> TRUE, rows |-> t \ Matching(t, q.values[1]), found |-> {},
          affectedRows |-> Cardinality(Matching(t, q.values[1])),
          insertId |-> 0]
    [] OTHER ->
         [ok |-> FALSE, rows |-> t, found |-> {}, affectedRows |-> 0,
          insertId |-> 0]

\* Mutant: the id taken from the highest id in the table.
InsertIdFromMax(t, n) ==
  IF t = {} THEN 1 ELSE (CHOOSE i \in Ids(t) : \A j \in Ids(t) : j <= i) + 1

\* result.insertId: the AUTO_INCREMENT counter, whatever the table holds.
InsertId(t, n) == n

\* A statement sent through the pool: it runs, or the query rejects.
Run(q, ok) ==
  IF ok THEN Execute(rows, q, InsertId(rows, nextId), now + 1)
  ELSE [ok |-> FALSE, rows |-> rows, found |-> {}, affectedRows |-> 0,
        insertId |-> 0]

\* ------------------------------------------------------------ responses
NoResp == [tag |-> "none", rows |-> <<>>]

\* res.json(rows) of the list handler: the rows in the order storage gave.
JsonArray(order) == [tag |-> "array", rows |-> order]

\* res.json(rows[0]): the first row found, or undefined (an empty body).
JsonFirst(found) ==
  IF found = {} THEN [tag |-> "empty", rows |-> <<>>]
  ELSE [tag |-> "object", rows |-> <<CHOOSE r \in found : TRUE>>]

\* res.status(404).json({ message: ... }): the fixed not-found message.
NotFound == [tag |-> "message", rows |-> <<>>]

\* res.status(204).send()
NoContent == [tag |-> "empty", rows |-> <<>>]

\* The framework's answer to a handler whose promise rejects.
OnRejected == [status |-> 500, resp |-> [tag |-> "error", rows |-> <<>>]]

Orders(t) ==
  {o \in [1..Cardinality(t) -> t] : \A i, j \in DOMAIN o : o[i] = o[j] => i = j}

\* ------------------------------------------------------------- handlers
Reqs == 1..MaxReqs

Idle == [pc |-> "idle", insertId |-> 0, param |-> NoParam]

FreeSlots(R) == {r \in R : slot[r].pc = "idle"}

FreeSlot(R) == CHOOSE r \in FreeSlots(R) : \A s \in FreeSlots(R) : r <= s

Event(kind, stmt, p, body, q, ok, status, resp) ==
  [kind |-> kind, stmt |-> stmt, param |-> p, body |-> body, query |-> q,
   ok |-> ok, status |-> status, resp |-> resp]

Rejected(kind, stmt, p, body, q) ==
  Event(kind, stmt, p, body, q, FALSE, OnRejected.status, OnRejected.resp)

\* app.get('/filmovi')
GetAll ==
  \E ok \in BOOLEAN :
    LET q == ListQuery
        res == Run(q, ok)
    IN /\ last.kind = "none"
       /\ IF res.ok
            THEN \E order \in Orders(res.found) :
                   last' = Event("list", 1, NoParam, NoBody, q, TRUE, 200,
                                 JsonArray(order))
            ELSE last' = Rejected("list", 1, NoParam, NoBody, q)
       /\ UNCHANGED <<rows, nextId, now, slot, created, deleted, answered, pool>>

\* The answer of app.get('/filmovi/:id') to what its query found.
GetByIdAnswer(found) ==
  IF found = {} THEN [status |-> 404, resp |-> NotFound]
  ELSE [status |-> 200, resp |-> JsonFirst(found)]

\* app.get('/filmovi/:id')
GetById(P) ==
  \E p \in P, ok \in BOOLEAN :
    LET q == GetQuery(p)
        res == Run(q, ok)
        ans == GetByIdAnswer(res.found)
    IN /\ last.kind = "none"
       /\ last' = IF res.ok
                    THEN Event("get", 1, p, NoBody, q, TRUE, ans.status, ans.resp)
                    ELSE Rejected("get", 1, p, NoBody, q)
       /\ UNCHANGED <<rows, nextId, now, slot, created, deleted, answered, pool>>

\* app.post('/filmovi'), to its first await: the INSERT.
\* Destructuring req.body throws when it is undefined: the handler's promise
\* rejects before any statement is sent.
PostInsert(R, B) ==
  /\ last.kind = "none"
  /\ \E body \in B, ok \in BOOLEAN :
       IF body = NoBody
         THEN /\ last' = Rejected("post", 0, NoParam, body, NoQuery)
              /\ UNCHANGED <<rows, nextId, now, slot, created, deleted, answered, pool>>
       ELSE
       /\ FreeSlots(R) # {}
       /\ nextId <= MaxId
       /\ LET r == FreeSlot(R)
              q == InsertQuery(body)
              res == Run(q, ok)
          IN IF res.ok
               THEN /\ rows' = res.rows
                    /\ nextId' = nextId + 1
                    /\ now' = now + 1
                    /\ created' = created \cup {res.insertId}
                    /\ slot' = [slot EXCEPT ![r] =
                                  [pc |-> "post", insertId |-> res.insertId,
                                   param |-> NoParam]]
                    /\ last' = Event("post", 1, NoParam, body, q, TRUE, 0, NoResp)
                    /\ UNCHANGED <<deleted, answered, pool>>
               ELSE /\ last' = Rejected("post", 1, NoParam, body, q)
                    /\ UNCHANGED <<rows, nextId, now, slot, created, deleted, answered, pool>>

\* Mutant: a failed re-read undoes the INSERT.
PostRereadRollback(r) ==
  /\ last.kind = "none"
  /\ slot[r].pc = "post"
  /\ \E ok \in BOOLEAN :
       LET q == PostRereadQuery(slot[r].insertId)
           res == Run(q, ok)
       IN /\ last' = IF res.ok
                       THEN Event("post", 2, NoParam, NoBody, q, TRUE, 201,
                                  JsonFirst(res.found))
                       ELSE Rejected("post", 2, NoParam, NoBody, q)
          /\ rows' = IF res.ok THEN rows
                     ELSE {x \in rows : x.id # slot[r].insertId}
  /\ slot' = [slot EXCEPT ![r] = Idle]
  /\ UNCHANGED <<nextId, now, created, deleted, answered, pool>>

\* app.post('/filmovi'), from its first await: the re-read and the answer.
PostReread(r) ==
  /\ last.kind = "none"
  /\ slot[r].pc = "post"
  /\ \E ok \in BOOLEAN :
       LET q == PostRereadQuery(slot[r].insertId)
           res == Run(q, ok)
       IN last' = IF res.ok
                    THEN Event("post", 2, NoParam, NoBody, q, TRUE, 201,
                               JsonFirst(res.found))
                    ELSE Rejected("post", 2, NoParam, NoBody, q)
  /\ slot' = [slot EXCEPT ![r] = Idle]
  /\ UNCHANGED <<rows, nextId, now, created, deleted, answered, pool>>

\* app.put('/filmovi/:id'), to its first await: the UPDATE and the 404 test.
\* Destructuring req.body throws when it is undefined, as in POST.
PutUpdate(R, P, B) ==
  /\ last.kind = "none"
  /\ \E p \in P, body \in B, ok \in BOOLEAN :
       IF body = NoBody
         THEN /\ last' = Rejected("put", 0, p, body, NoQuery)
              /\ UNCHANGED <<rows, nextId, now, slot, created, deleted, answered, pool>>
       ELSE
       /\ FreeSlots(R) # {}
       /\ LET r == FreeSlot(R)
              q == UpdateQuery(p, body)
              res == Run(q, ok)
          IN IF res.ok
               THEN /\ rows' = res.rows
                    /\ IF res.affectedRows = 0
                         THEN /\ last' = Event("put", 1, p, body, q, TRUE, 404,
                                               NotFound)
                              /\ UNCHANGED slot
                         ELSE /\ last' = Event("put", 1, p, body, q, TRUE, 0,
                                               NoResp)
                              /\ slot' = [slot EXCEPT ![r] =
                                            [pc |-> "put", insertId |-> 0,
                                             param |-> p]]
                    /\ UNCHANGED <<nextId, now, created, deleted, answered, pool>>
               ELSE /\ last' = Rejected("put", 1, p, body, q)
                    /\ UNCHANGED <<rows, nextId, now, slot, created, deleted, answered, pool>>

\* app.put('/filmovi/:id'), from its first await: the re-read and the answer.
PutReread(r) ==
  /\ last.kind = "none"
  /\ slot[r].pc = "put"
  /\ \E ok \in BOOLEAN :
       LET q == PutRereadQuery(slot[r].param)
           res == Run(q, ok)
       IN last' = IF res.ok
                    THEN Event("put", 2, slot[r].param, NoBody, q, TRUE, 200,
                               JsonFirst(res.found))
                    ELSE Rejected("put", 2, slot[r].param, NoBody, q)
  /\ slot' = [slot EXCEPT ![r] = Idle]
  /\ UNCHANGED <<rows, nextId, now, created, deleted, answered, pool>>

\* app.delete('/filmovi/:id')
Delete(P, W) ==
  \E p \in P, ok \in BOOLEAN :
    LET q == DeleteQuery(p)
        res == Run(q, ok)
    IN /\ last.kind = "none"
       /\ IF res.ok
            THEN /\ rows' = res.rows
                 /\ deleted' = deleted \cup (Ids(rows) \ Ids(res.rows))
                 /\ last' = IF res.affectedRows = 0
                              THEN Event("delete", 1, p, NoBody, q, TRUE, 404,
                                         NotFound)
                              ELSE Event("delete", 1, p, NoBody, q, TRUE, 204,
                                         NoContent)
                 /\ answered' = answered \cup ({IdValue(q.values[1])} \cap W)
                 /\ UNCHANGED <<nextId, now, slot, created, pool>>
            ELSE /\ last' = Rejected("delete", 1, p, NoBody, q)
                 /\ UNCHANGED <<rows, nextId, now, slot, created, deleted, answered, pool>>

NoEvent == Event("none", 0, NoParam, NoBody, NoQuery, TRUE, 0, NoResp)

\* The statement that ran last has been answered (or its handler is suspended
\* at its next await): the event loop takes the next one.
Forget ==
  /\ last.kind # "none"
  /\ last' = NoEvent
  /\ UNCHANGED <<rows, nextId, now, slot, created, deleted, answered, pool>>

vars == <<rows, nextId, now, slot, last, created, deleted, answered, pool>>

Init ==
  /\ rows = {}
  /\ nextId = 1
  /\ now = 0
  /\ slot = [r \in Reqs |-> Idle]
  /\ last = NoEvent
  /\ created = {}
  /\ deleted = {}
  /\ answered = {}
  /\ inUse = 0
  /\ queue = <<>>
  /\ run1 = 0
  /\ run2 = 0
  /\ tpc = "idle"
  /\ tstage = 1
  /\ tresp = 0

\* Requests of every kind, POST and PUT suspended side by side.
Next ==
  \/ GetAll
  \/ GetById(PathIds)
  \/ PostInsert(Reqs, Bodies \cup {NoBody})
  \/ \E r \in Reqs : PostReread(r)
  \/ PutUpdate(Reqs, PathIds, Bodies \cup {NoBody})
  \/ \E r \in Reqs : PutReread(r)
  \/ Delete(PathIds, {})
  \/ Forget

Spec == Init /\ [][Next]_vars

\* The same requests, with the ids a DELETE has answered for kept.
DeleteNext ==
  \/ GetAll
  \/ GetById(PathIds)
  \/ PostInsert(Reqs, Bodies \cup {NoBody})
  \/ \E r \in Reqs : PostReread(r)
  \/ PutUpdate(Reqs, PathIds, Bodies \cup {NoBody})
  \/ \E r \in Reqs : PutReread(r)
  \/ Delete(PathIds, 1..MaxId)
  \/ Forget

DeleteSpec == Init /\ [][DeleteNext]_vars

\* One request at a time, with every shape of body.
FieldNext ==
  \/ GetById(PathIds)
  \/ PostInsert({1}, FieldBodies \cup {NoBody})
  \/ PostReread(1)
  \/ PutUpdate({1}, PathIds, FieldBodies \cup {NoBody})
  \/ PutReread(1)
  \/ Delete(PathIds, {})
  \/ Forget

FieldSpec == Init /\ [][FieldNext]_vars

\* ------------------------------------------------------------- the pool
\* mysql.createPool({ waitForConnections, connectionLimit, queueLimit })
waitForConnections == TRUE
connectionLimit == 10
queueLimit == 0

\* The requests besides the one followed: each is in nobody's way until it
\* starts, and makes room for a new one when it is answered.
Others == connectionLimit + MaxQueued - 1

PoolState ==
  [inUse |-> inUse, queue |-> queue, run1 |-> run1, run2 |-> run2,
   tpc |-> tpc, tstage |-> tstage, tresp |-> tresp]

\* The statement `who` has a connection and runs: "o1" and "o2" are the first
\* and the second statement of another request, "t" one of the request followed.
Started(s, who) ==
  CASE who = "o1" -> [s EXCEPT !.run1 = @ + 1]
    [] who = "o2" -> [s EXCEPT !.run2 = @ + 1]
    [] who = "t" -> [s EXCEPT !.tpc = "run"]

Waiting(s, who) ==
  IF who = "t" THEN [s EXCEPT !.queue = Append(@, who), !.tpc = "wait"]
  ELSE [s EXCEPT !.queue = Append(@, who)]

\* The query rejects at once and the request is answered with the error.
Refused(s, who) ==
  IF who = "t" THEN [s EXCEPT !.tpc = "done", !.tresp = @ + 1] ELSE s

\* pool.query asks for a connection: a free one, or a place in the queue.
Acquire(s, who) ==
  IF s.inUse < connectionLimit
    THEN Started([s EXCEPT !.inUse = @ + 1], who)
    ELSE IF waitForConnections /\ (queueLimit = 0 \/ Len(s.queue) < queueLimit)
           THEN Waiting(s, who)
           ELSE Refused(s, who)

\* Mutant: the connection of a finished statement is kept.
ReleaseNever(s) == s

\* pool.query gives its connection back when its statement is over: to the
\* oldest statement waiting, if any.
Release(s) ==
  IF s.queue # <<>>
    THEN Started([s EXCEPT !.queue = Tail(@)], Head(s.queue))
    ELSE [s EXCEPT !.inUse = @ - 1]

SetPool(s) ==
  /\ inUse' = s.inUse
  /\ queue' = s.queue
  /\ run1' = s.run1
  /\ run2' = s.run2
  /\ tpc' = s.tpc
  /\ tstage' = s.tstage
  /\ tresp' = s.tresp

data == <<rows, nextId, now, slot, last, created, deleted, answered>>

OthersInFlight ==
  run1 + run2 + Cardinality({i \in 1..Len(queue) : queue[i] # "t"})

\* Another request arrives: its handler sends its first statement.
OtherStarts ==
  /\ OthersInFlight < Others
  /\ SetPool(Acquire(PoolState, "o1"))
  /\ UNCHANGED data

\* Storage answers the first statement of another request: the handler
\* answers (one statement, a 404, a failure) or sends its second statement.
OtherFirstDone ==
  /\ run1 > 0
  /\ \E more \in BOOLEAN :
       LET s == Release([PoolState EXCEPT !.run1 = @ - 1])
       IN SetPool(IF more THEN Acquire(s, "o2") ELSE s)
  /\ UNCHANGED data

\* Storage answers the re-read of another request: the handler answers.
OtherSecondDone ==
  /\ run2 > 0
  /\ SetPool(Release([PoolState EXCEPT !.run2 = @ - 1]))
  /\ UNCHANGED data

\* The request followed arrives.
TrackedStarts ==
  /\ tpc \in {"idle", "done"}
  /\ SetPool(Acquire([PoolState EXCEPT !.tstage = 1, !.tresp = 0], "t"))
  /\ UNCHANGED data

\* Storage answers the statement of the request followed.
TrackedDone ==
  /\ tpc = "run"
  /\ \E more \in (IF tstage = 1 THEN BOOLEAN ELSE {FALSE}) :
       LET s == Release([PoolState EXCEPT !.tpc = "await"])
       IN SetPool(IF more
                    THEN Acquire([s EXCEPT !.tstage = 2], "t")
                    ELSE [s EXCEPT !.tpc = "done", !.tresp = @ + 1])
  /\ UNCHANGED data

PoolNext ==
  \/ OtherStarts
  \/ OtherFirstDone
  \/ OtherSecondDone
  \/ TrackedStarts
  \/ TrackedDone

\* Storage answers every statement that runs.
PoolSpec ==
  /\ Init
  /\ [][PoolNext]_vars
  /\ WF_vars(OtherFirstDone)
  /\ WF_vars(OtherSecondDone)
  /\ WF_vars(TrackedDone)

\* =============================================================== claims
\* A JSON value of a request body against the column value of a row.
SameAs(v, col) == IF v \in {Absent, Null} THEN col = NULL ELSE col = v

\* What a PUT leaves in a column: the body's value, or the old one when the
\* body's value is absent or null.
Kept(v, old, new) == IF v \in {Absent, Null} THEN new = old ELSE new = v

IsPostInsert(e) == e.kind = "post" /\ e.stmt = 1 /\ e.ok

IsPutUpdate(e) == e.kind = "put" /\ e.stmt = 1 /\ e.ok

\* C1: round trip of create and get.  The INSERT of a POST adds exactly one
\* row, under an id the table did not hold, with the body's naslov, godina
\* and zanr (absent or null stored as NULL) and with id and created_at set;
\* the POST's own re-read answers with that row, and a GET of the decimal
\* text of that id, with no statement in between, answers 200 with it.
C1_CreateThenGet ==
  [][IsPostInsert(last') =>
       \E r \in rows' :
         /\ r.id \notin Ids(rows)
         /\ rows' = rows \cup {r}
         /\ Cardinality(rows') = Cardinality(rows) + 1
         /\ \E s \in DOMAIN slot :
              /\ slot[s].pc = "idle"
              /\ slot'[s].pc = "post"
              /\ slot'[s].insertId = r.id
         /\ SameAs(last'.body.naslov, r.naslov)
         /\ SameAs(last'.body.godina, r.godina)
         /\ SameAs(last'.body.zanr, r.zanr)
         /\ r.id \in Nat \ {0}
         /\ r.created_at \in Nat \ {0}
         /\ JsonFirst(Execute(rows', PostRereadQuery(r.id), nextId', now').found)
              = [tag |-> "object", rows |-> <<r>>]
         /\ GetByIdAnswer(Execute(rows', GetQuery(ToDigits(r.id)), nextId',
                                  now').found)
              = [status |-> 200, resp |-> [tag |-> "object", rows |-> <<r>>]]
    ]_vars

\* C1 witness: a POST with a title, a null year, a genre and an id key has
\* inserted the second row.
C1_Witness ==
  /\ IsPostInsert(last)
  /\ last.body.naslov = "B"
  /\ last.body.godina = Null
  /\ last.body.zanr = "X"
  /\ last.body.id = "9"
  /\ \E r \in rows :
       r.id = 2 /\ r.naslov = "B" /\ r.godina = NULL /\ r.zanr = "X"

\* C2: frame of update.  The UPDATE of a PUT keeps the number of rows and
\* the id and created_at of every row, leaves every row with another id as
\* it was, and in the row with the path's id replaces exactly the fields the
\* body gives a non-null value for (an id or created_at key changes nothing).
C2_UpdateFrame ==
  [][IsPutUpdate(last') =>
       /\ Cardinality(rows') = Cardinality(rows)
       /\ \A r \in rows :
            \E r2 \in rows' :
              /\ r2.id = r.id
              /\ r2.created_at = r.created_at
              /\ IF r.id = ToNum(last'.param)
                   THEN /\ Kept(last'.body.naslov, r.naslov, r2.naslov)
                        /\ Kept(last'.body.godina, r.godina, r2.godina)
                        /\ Kept(last'.body.zanr, r.zanr, r2.zanr)
                   ELSE r2 = r
    ]_vars

\* C2 witness: a PUT with a new title, a null year, no genre and an id key
\* has updated a row that keeps its year, beside another row.
C2_Witness ==
  /\ IsPutUpdate(last)
  /\ last.status = 0
  /\ last.body.naslov = "B"
  /\ last.body.godina = Null
  /\ last.body.zanr = Absent
  /\ last.body.id = "9"
  /\ \E r \in rows :
       /\ r.id = ToNum(last.param)
       /\ r.naslov = "B"
       /\ r.godina = "2010"
       /\ r.zanr = "X"
  /\ Cardinality(rows) = 2

\* The rows with the id a path segment stands for.
RowsAt(t, p) == {r \in t : r.id = ToNum(p)}

\* C3: not found.  GET, PUT and DELETE answer 404, with the fixed message,
\* exactly when the table holds no row with the path's id as their first
\* statement runs, and such a step changes nothing; a PUT on an id that
\* exists goes on to its re-read, whose answer is 200, whatever its body.
C3_NotFound ==
  [][/\ (last'.kind \in {"get", "put", "delete"} /\ last'.stmt = 1 /\ last'.ok)
          => /\ (last'.status = 404) <=> (RowsAt(rows, last'.param) = {})
             /\ (last'.status = 404)
                  => /\ last'.resp = [tag |-> "message", rows |-> <<>>]
                     /\ rows' = rows
                     /\ Cardinality(rows') = Cardinality(rows)
                     /\ slot' = slot
             /\ (last'.kind = "put" /\ RowsAt(rows, last'.param) # {})
                  => /\ last'.status = 0
                     /\ \E s \in DOMAIN slot :
                          /\ slot[s].pc = "idle"
                          /\ slot'[s].pc = "put"
                          /\ slot'[s].param = last'.param
     /\ (last'.kind = "put" /\ last'.stmt = 2 /\ last'.ok)
          => last'.status = 200
    ]_vars

\* C3 witness: a PUT whose body carries nothing has found its row and is
\* not answered with 404.
C3_Witness ==
  /\ IsPutUpdate(last)
  /\ last.body.naslov = Absent
  /\ last.body.godina = Absent
  /\ last.body.zanr = Absent
  /\ last.status = 0
  /\ RowsAt(rows, last.param) # {}

\* C4 as claimed: once a DELETE has answered for an id, with 204 or with
\* 404, every GET of that id whose query runs answers 404.
C4_DeleteIsFinal ==
  (last.kind = "get" /\ last.ok /\ ToNum(last.param) \in answered)
    => last.status = 404

\* C4 as amended: once a DELETE has answered 204 for an id, no row has that
\* id again, and every GET of that id whose query runs answers 404.
C4_DeletedStaysGone ==
  /\ \A i \in deleted : i \notin Ids(rows)
  /\ (last.kind = "get" /\ last.ok /\ ToNum(last.param) \in deleted)
       => (last.status = 404 /\ last.resp = [tag |-> "message", rows |-> <<>>])

\* C4 witness: a GET of a deleted id answers 404 after a later POST has
\* created another row.
C4_Witness ==
  /\ last.kind = "get"
  /\ last.ok
  /\ last.status = 404
  /\ ToNum(last.param) \in deleted
  /\ \E r \in rows : r.id > ToNum(last.param)

\* C5: the list is exact.  GET /filmovi answers 200 with an array that holds
\* each row created and not deleted once, in some order, and nothing else;
\* PUT and the requests that answer 404 leave the set of ids as it was.
C5_ListExact ==
  [][/\ (last'.kind = "list" /\ last'.ok)
          => /\ last'.status = 200
             /\ last'.resp.tag = "array"
             /\ LET a == last'.resp.rows
                IN /\ Len(a) = Cardinality(created' \ deleted')
                   /\ {a[i].id : i \in 1..Len(a)} = created' \ deleted'
                   /\ \A i, j \in 1..Len(a) : a[i].id = a[j].id => i = j
                   /\ \A i \in 1..Len(a) : a[i] \in rows'
     /\ (last'.kind = "put" \/ last'.status = 404)
          => /\ Ids(rows') = Ids(rows)
             /\ created' \ deleted' = created \ deleted
    ]_vars

\* C5 witness: after two POSTs and a DELETE the list holds the one row left.
C5_Witness ==
  /\ last.kind = "list"
  /\ last.status = 200
  /\ created = {1, 2}
  /\ deleted = {1}
  /\ Len(last.resp.rows) = 1
  /\ last.resp.rows[1].id = 2

\* C6 as claimed: every row has an id of its own and a naslov that is not
\* NULL.
C6_TableInvariant ==
  \A r \in rows :
    /\ r.naslov # NULL
    /\ \A r2 \in rows : r2.id = r.id => r2 = r

\* C7 as claimed: the body of a 201 is the row with the id the INSERT
\* returned, the body of a 200 of PUT is the row with the path's id; it is
\* never empty.
C7_WriteResponseBody ==
  /\ (last.kind = "post" /\ last.stmt = 2 /\ last.status = 201)
       => /\ last.resp.tag = "object"
          /\ last.resp.rows[1].id = IdValue(last.query.values[1])
  /\ (last.kind = "put" /\ last.stmt = 2 /\ last.status = 200)
       => /\ last.resp.tag = "object"
          /\ last.resp.rows[1].id = ToNum(last.param)

\* C8: storage failure.  A statement whose query rejects ends its request
\* with the 500 answer: the handler is suspended at no further statement,
\* nothing is retried, and the table is left as it was, the write of a POST
\* or PUT whose re-read fails included.
C8_StorageFailure ==
  [][(last'.kind # "none" /\ last'.stmt # 0 /\ ~last'.ok)
       => /\ last'.status = 500
          /\ last'.resp.tag = "error"
          /\ rows' = rows
          /\ nextId' = nextId
          /\ \A s \in DOMAIN slot : slot'[s] \in {slot[s], Idle}
          /\ (last'.stmt = 1) => slot' = slot
          /\ (last'.stmt = 2)
               => \E s \in DOMAIN slot : slot[s].pc # "idle" /\ slot'[s] = Idle
    ]_vars

\* C8 witness: the re-read of a POST has failed and the inserted row is
\* still in the table.
C8_Witness ==
  /\ last.kind = "post"
  /\ last.stmt = 2
  /\ ~last.ok
  /\ last.status = 500
  /\ \E r \in rows : r.id = IdValue(last.query.values[1])

\* The statement of each handler.
SqlTextOf(kind, stmt) ==
  CASE kind = "list" -> SELECT_ALL
    [] kind = "get" -> SELECT_BY_ID
    [] kind = "post" /\ stmt = 1 -> INSERT_ROW
    [] kind = "put" /\ stmt = 1 -> UPDATE_ROW
    [] kind = "delete" -> DELETE_ROW
    [] OTHER -> SELECT_BY_ID

\* C9: parameter binding.  The text a handler sends is the fixed statement
\* of that handler, whatever the path and the body; the path's id and the
\* body's values travel in the list of bound parameters.
C9_ParameterBinding ==
  (last.kind # "none" /\ last.stmt # 0)
    => /\ last.query.text = SqlTextOf(last.kind, last.stmt)
       /\ (last.kind \in {"get", "put", "delete"})
            => last.query.values[Len(last.query.values)].chars = last.param
       /\ (last.kind \in {"post", "put"} /\ last.stmt = 1)
            => /\ Len(last.query.values) >= 3
               /\ SameAs(last.body.naslov, ColValue(last.query.values[1]))
               /\ SameAs(last.body.godina, ColValue(last.query.values[2]))
               /\ SameAs(last.body.zanr, ColValue(last.query.values[3]))

\* C9 witness: a PUT of path 01 with a title has sent the UPDATE statement.
C9_Witness ==
  /\ IsPutUpdate(last)
  /\ last.param = <<"0", "1">>
  /\ last.body.naslov = "B"
  /\ last.query.text = UPDATE_ROW

\* C10: pool bound and progress.  The connections in use never exceed the
\* limit, each of them runs a statement (no handler keeps one while it waits),
\* a statement waits only while all of them are busy, a request is answered
\* at most once, and, storage answering every running statement, a statement
\* that waits gets a connection and a request that has started is answered.
C10_PoolProgress ==
  /\ [](inUse <= connectionLimit)
  /\ [](inUse = run1 + run2 + (IF tpc = "run" THEN 1 ELSE 0))
  /\ [](queue # <<>> => inUse = connectionLimit)
  /\ [](tresp <= 1 /\ (tpc = "done" <=> tresp = 1))
  /\ ((tpc = "wait") ~> (tpc = "run"))
  /\ ((tpc \in {"wait", "run"}) ~> (tpc = "done" /\ tresp = 1))

\* C10 witness: every connection is in use and the request followed waits
\* for one, for its second statement, behind another statement.
C10_Witness ==
  /\ inUse = connectionLimit
  /\ Len(queue) = MaxQueued
  /\ tpc = "wait"
  /\ tstage = 2
  /\ queue[1] # "t"

====
